---- MODULE Spec2Model ----
(***************************************************************************)
(* Admission control of Bino-Elgua/BOT: the sliding-window rate limiter    *)
(* (app/services/rate_limiter.py) over the shared store client             *)
(* (app/services/redis_service.py), and the WebSocket session registry     *)
(* (app/routers/websocket.py).                                             *)
(*                                                                         *)
(* Time is counted in ticks.  A second is SecTicks ticks; the Lua          *)
(* number-to-string conversion used for the sorted-set member keeps 14     *)
(* significant digits, so it resolves FmtTicks ticks.  Each coroutine is a *)
(* process whose position is the await it is suspended in; everything      *)
(* between two awaits is one step (asyncio runs one coroutine at a time).  *)
(***************************************************************************)
EXTENDS Integers, Sequences, FiniteSets, TLC

\* ------------------------------------------------------------------ bounds
MaxTime  == 6      \* the clock stops after this many ticks
NRand    == 2      \* how many values math.random() is drawn from
MaxLimit == 2      \* largest configured request limit
MaxWindow == 1     \* largest configured window, in seconds
NProcs   == 2      \* concurrent coroutines
NSess    == 3      \* WebSocket connection attempts
MaxPending == 1    \* connection attempts in progress at a time
MaxMsgs  == 1      \* messages the sessions receive, all together
MaxLoopMsgs == 2   \* the same where the messages are short
MaxRequests == 1   \* HTTP requests a coroutine serves

\* --------------------------------------------------------- scale constants
SecTicks == 4      \* ticks in one second (replies are truncated to seconds)
FmtTicks == 2      \* ticks that "%.14g" cannot tell apart in the member
SmallSize == 64    \* bytes of a short message

\* ---------------------------------------------------- core/config.py
rate_limit_burst == 20
websocket_max_message_size == 16384

None     == "None"
Procs    == 1..NProcs
Sessions == (NProcs + 1)..(NProcs + NSess)
Tasks    == Procs \cup Sessions
Rand     == 1..NRand
Time     == 0..MaxTime

\* identifiers passed to is_allowed by direct callers
RLIdentifiers == {<<"ip", "1.2.3.4">>}

\* the address a request comes from, and the one a proxy reports for it
Hosts == {"1.2.3.4"}
Forwarded == {"5.6.7.8"}
HttpIdentifiers == {<<"ip", a>> : a \in Hosts \cup Forwarded}

Max(a, b) == IF a >= b THEN a ELSE b

VARIABLES
  now,            \* time.time() and the store's clock, in ticks
  scriptCached,   \* the store still holds the loaded script
  zset,           \* the sorted sets: key -> set of [member, score]
  expireAt,       \* key -> tick at which the key expires, or None
  settings,       \* core.config.Settings
  script_sha,     \* RateLimiter._script_sha
  pool,           \* RedisConnectionManager._pool
  redis,          \* RedisConnectionManager._redis
  lock,           \* RedisConnectionManager._lock: its holder, or None
  lock_waiters,   \* coroutines queued on the lock, first come first served
  rl,             \* process -> its is_allowed call (position and locals)
  last,           \* the decision is_allowed returned in the latest step
  active_connections,   \* ConnectionManager.active_connections
  connection_metadata,  \* ConnectionManager.connection_metadata
  sess,           \* connection -> its websocket_endpoint (position, locals)
  wire,           \* the frame sent in the latest step, and on which handle
  done,           \* history: the broadcast that ended in the latest step
  http,           \* coroutine -> the request its middleware is serving
  admitted,       \* history: key -> times of the calls the script admitted
  lastTime,       \* history: key -> latest time a script execution carried
  ordered,        \* history: key -> executions came with increasing times
  seen            \* history: what the latest execution should have counted

storeVars   == <<zset, expireAt, scriptCached>>
managerVars == <<pool, redis, lock, lock_waiters>>
histVars    == <<admitted, lastTime, ordered, seen>>
wsVars      == <<active_connections, connection_metadata, sess, wire, done>>
appVars     == <<wsVars, http>>
vars == <<now, zset, expireAt, scriptCached, settings, script_sha,
          pool, redis, lock, lock_waiters, rl, last, admitted, lastTime,
          ordered, seen, active_connections, connection_metadata, sess,
          wire, done, http>>

\* ------------------------------------------------------------- identifiers
\* client ids offered to the WebSocket endpoint, told apart by their length
ClientIds == {"", "a", "b", "c", "long"}
len(client_id) ==
  CASE client_id = ""     -> 0
    [] client_id = "a"    -> 1
    [] client_id = "b"    -> 50
    [] client_id = "c"    -> 100
    [] client_id = "long" -> 101

Identifiers == RLIdentifiers \cup HttpIdentifiers
               \cup {<<"ws_connect", c>> : c \in ClientIds}
               \cup {<<"ws_message", c>> : c \in ClientIds}
Key(identifier) == <<"rate_limit", identifier>>
Keys == {Key(i) : i \in Identifiers}

\* ------------------------------------------------- the store's sorted sets
\* Lua's tostring()/".." on a number prints "%.14g": times closer than
\* FmtTicks print alike
tostring(number) == number \div FmtTicks

\* a Lua number in a script reply becomes a store integer: truncated
ToInteger(number) == number \div SecTicks

\* mutant: the trim keeps entries for one second too long
ZREMRANGEBYSCORE_late(z, min, max) ==
  {e \in z : ~(e.score >= min /\ e.score <= max - SecTicks)}

ZREMRANGEBYSCORE(z, min, max) == {e \in z : ~(e.score >= min /\ e.score <= max)}

ZCARD(z) == Cardinality(z)

\* ZRANGE key 0 0 WITHSCORES: <<member, score>> of the lowest-scored entry,
\* the empty list if there is none
ZRANGE(z) ==
  IF z = {} THEN <<>>
  ELSE LET e == CHOOSE e \in z : \A o \in z : e.score <= o.score
       IN  <<e.member, e.score>>

\* ZRANGE key -1 -1 WITHSCORES: the same for the highest-scored entry
ZRANGE_last(z) ==
  IF z = {} THEN <<>>
  ELSE LET e == CHOOSE e \in z : \A o \in z : e.score >= o.score
       IN  <<e.member, e.score>>

\* ZADD: a member already present keeps one entry and takes the new score
ZADD(z, score, member) ==
  {e \in z : e.member # member} \cup {[member |-> member, score |-> score]}

\* mutant: the expiry is set anew on a denial too
lua_script_expire(z, window, limit, current_time, burst_limit, random) ==
  LET w             == window * SecTicks
      kept          == ZREMRANGEBYSCORE(z, 0, current_time - w)
      current_count == ZCARD(kept)
      oldest_score  == ZRANGE(kept)
  IN  IF current_count >= limit
      THEN [zset  |-> kept,
            added |-> TRUE,
            reply |-> <<0, current_count, limit,
                        ToInteger(IF Len(oldest_score) >= 2
                                  THEN oldest_score[2] + w ELSE 0),
                        limit - current_count>>]
      ELSE [zset  |-> ZADD(kept, current_time,
                           <<tostring(current_time), random>>),
            added |-> TRUE,
            reply |-> <<1, current_count + 1, limit,
                        ToInteger(current_time + w),
                        limit - current_count - 1>>]

\* RateLimiter._lua_script, run by the store as one indivisible step.
\* window is in seconds, current_time in ticks.
lua_script(z, window, limit, current_time, burst_limit, random) ==
  LET w             == window * SecTicks
      kept          == ZREMRANGEBYSCORE(z, 0, current_time - w)
      current_count == ZCARD(kept)
      oldest_score  == ZRANGE(kept)
  IN  IF current_count >= limit
      THEN [zset  |-> kept,
            added |-> FALSE,
            reply |-> <<0, current_count, limit,
                        ToInteger(IF Len(oldest_score) >= 2
                                  THEN oldest_score[2] + w ELSE 0),
                        limit - current_count>>]
      ELSE [zset  |-> ZADD(kept, current_time,
                           <<tostring(current_time), random>>),
            added |-> TRUE,
            reply |-> <<1, current_count + 1, limit,
                        ToInteger(current_time + w),
                        limit - current_count - 1>>]

\* is_allowed's conversion of the reply (reset_time: seconds, kept in ticks)
Decision(result) ==
  [allowed       |-> result[1] # 0,
   current_count |-> result[2],
   limit         |-> result[3],
   reset_time    |-> result[4] * SecTicks,
   remaining     |-> Max(0, result[5]),
   error         |-> FALSE]

\* is_allowed's except branch: fail open
FailOpen(limit, window) ==
  [allowed       |-> TRUE,
   current_count |-> 0,
   limit         |-> IF limit # 0 THEN limit ELSE 100,
   reset_time    |-> now + (IF window # 0 THEN window ELSE 60) * SecTicks,
   remaining     |-> IF limit # 0 THEN limit ELSE 100,
   error         |-> TRUE]

\* "x or default": None and 0 are both written 0
Or(x, default) == IF x # 0 THEN x ELSE default

NoDecision == [allowed |-> FALSE, current_count |-> 0, limit |-> 0,
               reset_time |-> 0, remaining |-> 0, error |-> FALSE]
NoIdentifier == <<"", "">>

\* get_stats' dictionary; None is written Never
NoStats == [current_count |-> 0, oldest_request |-> -1,
            newest_request |-> -1, window_start |-> -1, window_end |-> -1]

\* what reset_limit (ok) and get_stats (stats, or error) return
NoResult == [ok |-> FALSE, error |-> FALSE, stats |-> NoStats]

\* op is the method of RateLimiter that is running
IdleCall == [pc |-> "idle", op |-> None, identifier |-> NoIdentifier,
             limit |-> 0, window |-> 0, burst_limit |-> 0,
             current_time |-> 0, cont |-> None, stats |-> NoStats]
NoReturn == [op |-> None, identifier |-> NoIdentifier, current_time |-> 0,
             limit |-> 0, window |-> 0, before |-> {}, after |-> {},
             res |-> NoDecision, result |-> NoResult]
NoHolder == 0
Never    == -1

\* ------------------------------------------------ RedisConnectionManager
\* is_allowed's locals once the settings defaults are applied and the time
\* is read (rate_limiter.py lines 101-107)
Defaults(f) ==
  [f EXCEPT !.limit        = Or(f.limit, settings.rate_limit_requests),
            !.window       = Or(f.window, settings.rate_limit_window),
            !.burst_limit  = Or(f.burst_limit, settings.rate_limit_burst),
            !.current_time = now]

\* the call of p goes on with the locals f, suspended where f.pc says
Goes(p, f) ==
  /\ rl' = [rl EXCEPT ![p] = f]
  /\ last' = NoReturn

\* is_allowed returns res to the caller of p; before and after are the sorted
\* set as the script found it and as it left it
Returns(p, f, res, before, after) ==
  /\ rl' = [rl EXCEPT ![p] = IdleCall]
  /\ last' = [op |-> f.op,
              identifier |-> f.identifier, current_time |-> f.current_time,
              limit |-> f.limit, window |-> f.window,
              before |-> before, after |-> after, res |-> res,
              result |-> NoResult]

\* reset_limit or get_stats returns result to the caller of p; before and
\* after are the sorted set as the call's last command found and left it
Answers(p, f, result, before, after) ==
  /\ rl' = [rl EXCEPT ![p] = IdleCall]
  /\ last' = [NoReturn EXCEPT !.op = f.op, !.identifier = f.identifier,
                              !.before = before, !.after = after,
                              !.result = result]

\* the except branch of the method that is running, entered with the locals
\* f: is_allowed fails open, reset_limit returns False, get_stats an error
Fails(p, f) ==
  IF f.op = "is_allowed"
  THEN Returns(p, f, FailOpen(f.limit, f.window), {}, {})
  ELSE Answers(p, f, [NoResult EXCEPT !.error = TRUE], {}, {})

\* get_redis() returned the client: the command named by cont is sent, or
\* fails at once when there is no client to send it
Returned(p, f, cont) ==
  IF redis' # None THEN Goes(p, [f EXCEPT !.pc = cont]) ELSE Fails(p, f)

\* mutant: neither get_redis() nor initialize() looks whether a client or a
\* pool is there
get_redis_unguarded(p, f, cont) ==
  IF lock = NoHolder /\ lock_waiters = <<>>
  THEN /\ lock' = p
       /\ pool' = "pool"
       /\ redis' = "client"
       /\ UNCHANGED lock_waiters
       /\ Goes(p, [f EXCEPT !.pc = "init_ping", !.cont = cont])
  ELSE /\ lock_waiters' = Append(lock_waiters, p)
       /\ UNCHANGED <<lock, pool, redis>>
       /\ Goes(p, [f EXCEPT !.pc = "init_lock", !.cont = cont])

\* get_redis() up to its first suspension, called with the locals f; cont is
\* the command awaited once the client is there
get_redis(p, f, cont) ==
  IF redis # None
  THEN /\ UNCHANGED managerVars
       /\ Returned(p, f, cont)
  ELSE \* initialize()
       IF pool # None
       THEN /\ UNCHANGED managerVars
            /\ Returned(p, f, cont)
       ELSE IF lock = NoHolder /\ lock_waiters = <<>>
            THEN \* lock taken; pool and client created; ping awaited
                 /\ lock' = p
                 /\ pool' = "pool"
                 /\ redis' = "client"
                 /\ UNCHANGED lock_waiters
                 /\ Goes(p, [f EXCEPT !.pc = "init_ping", !.cont = cont])
            ELSE /\ lock_waiters' = Append(lock_waiters, p)
                 /\ UNCHANGED <<lock, pool, redis>>
                 /\ Goes(p, [f EXCEPT !.pc = "init_lock", !.cont = cont])

\* initialize(): the queued coroutine gets the lock
InitLock(p) ==
  /\ rl[p].pc = "init_lock"
  /\ lock = NoHolder
  /\ lock_waiters # <<>> /\ Head(lock_waiters) = p
  /\ lock_waiters' = Tail(lock_waiters)
  /\ IF pool # None
     THEN \* second check under the lock: return, releasing it
          /\ UNCHANGED <<lock, pool, redis>>
          /\ Returned(p, rl[p], rl[p].cont)
     ELSE /\ lock' = p
          /\ pool' = "pool"
          /\ redis' = "client"
          /\ Goes(p, [rl[p] EXCEPT !.pc = "init_ping"])
  /\ UNCHANGED <<now, storeVars, settings, script_sha>>

\* close() is over and the lock released; what follows is cont: "raise" (the
\* failed initialize() re-raises into is_allowed) or "idle" (close_redis()
\* returns to its caller)
Closed(p, f, cont) ==
  IF cont = "raise" THEN Fails(p, f) ELSE Goes(p, IdleCall)

\* close() once it holds the lock, up to its next suspension
closing(p, f, cont) ==
  IF redis # None
  THEN /\ lock' = p
       /\ UNCHANGED <<pool, redis>>
       /\ Goes(p, [f EXCEPT !.pc = "close_redis", !.cont = cont])
  ELSE IF pool # None
       THEN /\ lock' = p
            /\ UNCHANGED <<pool, redis>>
            /\ Goes(p, [f EXCEPT !.pc = "close_pool", !.cont = cont])
       ELSE /\ lock' = NoHolder
            /\ UNCHANGED <<pool, redis>>
            /\ Closed(p, f, cont)

\* close() from its "async with self._lock" on, entered with the locals f
close(p, f, cont) ==
  IF lock = NoHolder /\ lock_waiters = <<>>
  THEN /\ UNCHANGED lock_waiters
       /\ closing(p, f, cont)
  ELSE /\ lock_waiters' = Append(lock_waiters, p)
       /\ UNCHANGED <<lock, pool, redis>>
       /\ Goes(p, [f EXCEPT !.pc = "close_lock", !.cont = cont])

\* initialize(): the ping answers, or raises.  On an error close() is awaited
\* inside the "async with self._lock" block, and close() starts by taking
\* the same lock.
InitPing(p) ==
  /\ rl[p].pc = "init_ping"
  /\ \E reachable \in BOOLEAN :
       IF reachable
       THEN /\ lock' = NoHolder
            /\ UNCHANGED <<pool, redis, lock_waiters>>
            /\ Returned(p, rl[p], rl[p].cont)
       ELSE close(p, rl[p], "raise")
  /\ UNCHANGED <<now, storeVars, settings, script_sha>>

\* close(): the queued coroutine gets the lock
CloseLock(p) ==
  /\ rl[p].pc = "close_lock"
  /\ lock = NoHolder
  /\ lock_waiters # <<>> /\ Head(lock_waiters) = p
  /\ lock_waiters' = Tail(lock_waiters)
  /\ closing(p, rl[p], rl[p].cont)
  /\ UNCHANGED <<now, storeVars, settings, script_sha>>

\* close(): the client is closed; the pool, if any, is disconnected next
CloseRedis(p) ==
  /\ rl[p].pc = "close_redis"
  /\ redis' = None
  /\ IF pool # None
     THEN /\ Goes(p, [rl[p] EXCEPT !.pc = "close_pool"])
          /\ UNCHANGED lock
     ELSE /\ Closed(p, rl[p], rl[p].cont)
          /\ lock' = NoHolder
  /\ UNCHANGED <<pool, lock_waiters>>
  /\ UNCHANGED <<now, storeVars, settings, script_sha>>

\* close(): the pool is disconnected and the lock released
ClosePool(p) ==
  /\ rl[p].pc = "close_pool"
  /\ pool' = None
  /\ lock' = NoHolder
  /\ Closed(p, rl[p], rl[p].cont)
  /\ UNCHANGED <<redis, lock_waiters>>
  /\ UNCHANGED <<now, storeVars, settings, script_sha>>

\* close_redis(), called by the application
close_redis(p) ==
  /\ rl[p].pc = "idle"
  /\ close(p, IdleCall, "idle")
  /\ UNCHANGED <<now, storeVars, settings, script_sha>>

\* ------------------------------------------------------------ RateLimiter
\* is_allowed(identifier, limit, window, burst_limit) up to its first
\* suspension: _ensure_script_loaded() if no sha is cached, else on to evalsha
is_allowed(p, identifier, limit, window, burst_limit) ==
  LET f == [IdleCall EXCEPT !.op = "is_allowed",
                            !.identifier = identifier, !.limit = limit,
                            !.window = window, !.burst_limit = burst_limit]
  IN  /\ rl[p].pc = "idle"
      /\ IF script_sha = None
         THEN get_redis(p, f, "script_load")
         ELSE get_redis(p, Defaults(f), "evalsha")
      /\ UNCHANGED <<now, storeVars, settings, script_sha>>

\* _ensure_script_loaded(): script_load answers, or raises
ScriptLoad(p) ==
  /\ rl[p].pc = "script_load"
  /\ \E reachable \in BOOLEAN :
       IF reachable
       THEN /\ script_sha' = "sha"
            /\ scriptCached' = TRUE
            /\ get_redis(p, Defaults(rl[p]), "evalsha")
       ELSE /\ Fails(p, rl[p])
            /\ UNCHANGED <<script_sha, scriptCached, managerVars>>
  /\ UNCHANGED <<now, zset, expireAt, settings>>

\* the store runs the script for the call f with the random number random
Executed(f, random) ==
  lua_script(zset[Key(f.identifier)], f.window, f.limit, f.current_time,
             f.burst_limit, random)

\* EXPIRE key window+1 after an insertion; a sorted set left empty is gone
\* together with its expiry
Expiry(f, out) ==
  IF out.added THEN now + (f.window + 1) * SecTicks
  ELSE IF out.zset = {} THEN Never
  ELSE expireAt[Key(f.identifier)]

\* evalsha answers with the script's reply, or raises (store unreachable, or
\* the script is no longer cached: NoScriptError)
EvalSha(p) ==
  /\ rl[p].pc = "evalsha"
  /\ \E random \in Rand, reachable \in BOOLEAN :
       LET f   == rl[p]
           k   == Key(f.identifier)
           out == Executed(f, random)
       IN  IF reachable /\ scriptCached
           THEN /\ zset' = [zset EXCEPT ![k] = out.zset]
                /\ expireAt' = [expireAt EXCEPT ![k] = Expiry(f, out)]
                /\ Returns(p, f, Decision(out.reply), zset[k], out.zset)
           ELSE /\ Fails(p, f)
                /\ UNCHANGED <<zset, expireAt>>
  /\ UNCHANGED <<now, scriptCached, settings, script_sha, managerVars>>

\* one step of a pending is_allowed of process p
RLStep(p) ==
  \/ InitLock(p)
  \/ InitPing(p)
  \/ ScriptLoad(p)
  \/ EvalSha(p)

\* reset_limit(identifier) up to its first suspension
reset_limit(p, identifier) ==
  /\ rl[p].pc = "idle"
  /\ get_redis(p, [IdleCall EXCEPT !.op = "reset_limit",
                                   !.identifier = identifier], "delete")
  /\ UNCHANGED <<now, storeVars, settings, script_sha>>

\* mutant: the delete empties every key
Delete_all(p) ==
  /\ rl[p].pc = "delete"
  /\ \E reachable \in BOOLEAN :
       LET f == rl[p]
           k == Key(f.identifier)
       IN  IF reachable
           THEN /\ zset' = [q \in Keys |-> {}]
                /\ expireAt' = [q \in Keys |-> Never]
                /\ Answers(p, f, [NoResult EXCEPT !.ok = zset[k] # {}],
                           zset[k], {})
           ELSE /\ Fails(p, f)
                /\ UNCHANGED <<zset, expireAt>>
  /\ UNCHANGED <<now, scriptCached, settings, script_sha, managerVars>>

\* reset_limit(): DEL answers with the number of keys it deleted, or raises
Delete(p) ==
  /\ rl[p].pc = "delete"
  /\ \E reachable \in BOOLEAN :
       LET f == rl[p]
           k == Key(f.identifier)
       IN  IF reachable
           THEN /\ zset' = [zset EXCEPT ![k] = {}]
                /\ expireAt' = [expireAt EXCEPT ![k] = Never]
                /\ Answers(p, f, [NoResult EXCEPT !.ok = zset[k] # {}],
                           zset[k], {})
           ELSE /\ Fails(p, f)
                /\ UNCHANGED <<zset, expireAt>>
  /\ UNCHANGED <<now, scriptCached, settings, script_sha, managerVars>>

\* get_stats(identifier) up to its first suspension
get_stats(p, identifier) ==
  /\ rl[p].pc = "idle"
  /\ get_redis(p, [IdleCall EXCEPT !.op = "get_stats",
                                   !.identifier = identifier], "zcard")
  /\ UNCHANGED <<now, storeVars, settings, script_sha>>

\* a command of get_stats answers and the next one is sent, or it raises
StatsStep(p, pc, f) ==
  /\ rl[p].pc = pc
  /\ \E reachable \in BOOLEAN :
       IF reachable THEN Goes(p, f) ELSE Fails(p, rl[p])
  /\ UNCHANGED <<now, storeVars, settings, script_sha, managerVars>>

\* mutant: the count is taken after a trim of the key
StatsCount_trim(p) ==
  /\ rl[p].pc = "zcard"
  /\ \E reachable \in BOOLEAN :
       LET k == Key(rl[p].identifier)
           kept == ZREMRANGEBYSCORE(
                     zset[k], 0,
                     now - settings.rate_limit_window * SecTicks)
       IN  IF reachable
           THEN /\ zset' = [zset EXCEPT ![k] = kept]
                /\ Goes(p, [rl[p] EXCEPT !.pc = "zrange_oldest",
                                         !.stats.current_count = ZCARD(kept)])
           ELSE /\ Fails(p, rl[p])
                /\ UNCHANGED zset
  /\ UNCHANGED <<now, expireAt, scriptCached, settings, script_sha,
                 managerVars>>

\* get_stats(), line 178: zcard(key)
StatsCount(p) ==
  StatsStep(p, "zcard",
            [rl[p] EXCEPT !.pc = "zrange_oldest",
                          !.stats.current_count =
                             ZCARD(zset[Key(rl[p].identifier)])])

\* get_stats(), line 181: zrange(key, 0, 0, withscores=True)
StatsOldest(p) ==
  LET oldest == ZRANGE(zset[Key(rl[p].identifier)])
  IN  StatsStep(p, "zrange_oldest",
                [rl[p] EXCEPT !.pc = "zrange_newest",
                              !.stats.oldest_request =
                                 IF oldest # <<>> THEN oldest[2] ELSE -1])

\* get_stats(), lines 182-192: zrange(key, -1, -1, withscores=True), and the
\* dictionary is returned
StatsNewest(p) ==
  /\ rl[p].pc = "zrange_newest"
  /\ \E reachable \in BOOLEAN :
       LET f      == rl[p]
           z      == zset[Key(f.identifier)]
           newest == ZRANGE_last(z)
           oldest == f.stats.oldest_request
       IN  IF reachable
           THEN Answers(p, f,
                  [NoResult EXCEPT
                     !.ok = TRUE,
                     !.stats = [f.stats EXCEPT
                        !.newest_request =
                           IF newest # <<>> THEN newest[2] ELSE -1,
                        !.window_start = oldest,
                        !.window_end =
                           IF oldest # -1
                           THEN oldest + settings.rate_limit_window * SecTicks
                           ELSE -1]],
                  z, z)
           ELSE Fails(p, f)
  /\ UNCHANGED <<now, storeVars, settings, script_sha, managerVars>>

\* one step of a pending reset_limit or get_stats of process p
AdminStep(p) ==
  \/ Delete(p)
  \/ StatsCount(p)
  \/ StatsOldest(p)
  \/ StatsNewest(p)

\* one step of a pending close of process p
CloseStep(p) ==
  \/ CloseLock(p)
  \/ CloseRedis(p)
  \/ ClosePool(p)

\* ------------------------------------------------------------ environment
Expired(k, time) == expireAt[k] # Never /\ expireAt[k] <= time

\* time passes; keys whose expiry is reached are deleted by the store
Tick ==
  /\ now < MaxTime
  /\ now' = now + 1
  /\ zset' = [k \in Keys |-> IF Expired(k, now + 1) THEN {} ELSE zset[k]]
  /\ expireAt' = [k \in Keys |->
                    IF Expired(k, now + 1) THEN Never ELSE expireAt[k]]
  /\ last' = NoReturn
  /\ UNCHANGED <<scriptCached, settings, script_sha, managerVars, rl>>

\* SCRIPT FLUSH, or a restart of the store: the script cache is emptied
ScriptFlush ==
  /\ scriptCached
  /\ scriptCached' = FALSE
  /\ last' = NoReturn
  /\ UNCHANGED <<now, zset, expireAt, settings, script_sha, managerVars, rl>>

\* ------------------------------------------------------ ConnectionManager
\* a dict keeps its entries in insertion order; a deleted entry leaves an
\* empty slot behind, which an iterator created earlier still steps over
NoSlot == [key |-> "", value |-> 0, live |-> FALSE]
LiveSlots(d) == {i \in DOMAIN d : d[i].live}
Contains(d, key) == \E i \in LiveSlots(d) : d[i].key = key
Index(d, key) == CHOOSE i \in LiveSlots(d) : d[i].key = key
GetItem(d, key) == d[Index(d, key)].value
SetItem(d, key, value) ==
  IF Contains(d, key) THEN [d EXCEPT ![Index(d, key)].value = value]
  ELSE Append(d, [key |-> key, value |-> value, live |-> TRUE])
DelItem(d, key) == [d EXCEPT ![Index(d, key)] = NoSlot]
dict_len(d) == Cardinality(LiveSlots(d))
dict_keys(d) == {d[i].key : i \in LiveSlots(d)}
dict_values(d) == {d[i].value : i \in LiveSlots(d)}

\* the dict iterator's search for the next live slot at or after pos (0: none)
RECURSIVE NextLive(_, _)
NextLive(d, pos) ==
  IF pos > Len(d) THEN 0
  ELSE IF d[pos].live THEN pos ELSE NextLive(d, pos + 1)

\* the two maps of the ConnectionManager, taken together
Registry == [active |-> active_connections, meta |-> connection_metadata]

\* connection_metadata[client_id] as connect() creates it
NewMetadata ==
  [connected_at |-> now, messages_sent |-> 0, messages_received |-> 0,
   bytes_sent |-> 0, bytes_received |-> 0, last_activity |-> now]

\* connect(), lines 50-58: the handle and the metadata are stored
store(reg, websocket, client_id) ==
  [active |-> SetItem(reg.active, client_id, websocket),
   meta   |-> [c \in DOMAIN reg.meta \cup {client_id} |->
                 IF c = client_id THEN NewMetadata ELSE reg.meta[c]]]

\* mutant: disconnect() drops the metadata of every client
disconnect_clear(reg, client_id) ==
  [active |-> IF Contains(reg.active, client_id)
              THEN DelItem(reg.active, client_id) ELSE reg.active,
   meta   |-> [c \in {} |-> NewMetadata]]

\* mutant: disconnect() forgets the metadata
disconnect_half(reg, client_id) ==
  [active |-> IF Contains(reg.active, client_id)
              THEN DelItem(reg.active, client_id) ELSE reg.active,
   meta   |-> reg.meta]

disconnect(reg, client_id) ==
  [active |-> IF Contains(reg.active, client_id)
              THEN DelItem(reg.active, client_id) ELSE reg.active,
   meta   |-> [c \in DOMAIN reg.meta \ {client_id} |-> reg.meta[c]]]

\* broadcast(), lines 157-158: every client of the list is disconnected
RECURSIVE cleanup(_, _)
cleanup(reg, disconnected_clients) ==
  IF disconnected_clients = {} THEN reg
  ELSE LET c == CHOOSE c \in disconnected_clients : TRUE
       IN  cleanup(disconnect(reg, c), disconnected_clients \ {c})

\* mutant: a send is counted twice
sent_metrics_twice(reg, client_id, message_bytes) ==
  IF client_id \in DOMAIN reg.meta
  THEN [reg EXCEPT !.meta[client_id].messages_sent = @ + 2,
                   !.meta[client_id].bytes_sent = @ + message_bytes,
                   !.meta[client_id].last_activity = now]
  ELSE reg

\* send_personal_message(), lines 121-125
sent_metrics(reg, client_id, message_bytes) ==
  IF client_id \in DOMAIN reg.meta
  THEN [reg EXCEPT !.meta[client_id].messages_sent = @ + 1,
                   !.meta[client_id].bytes_sent = @ + message_bytes,
                   !.meta[client_id].last_activity = now]
  ELSE reg

\* websocket_endpoint(), lines 250-254
received_metrics(reg, client_id, message_bytes) ==
  IF client_id \in DOMAIN reg.meta
  THEN [reg EXCEPT !.meta[client_id].messages_received = @ + 1,
                   !.meta[client_id].bytes_received = @ + message_bytes,
                   !.meta[client_id].last_activity = now]
  ELSE reg

\* ------------------------------------------------------------ the frames
NoField == -1
NoFrame == [kind |-> "none", size |-> 0, limit |-> NoField,
            actual |-> NoField, from |-> "", code |-> 0, retry_after |-> <<>>]
NoWire  == [to |-> 0, client_id |-> "", frame |-> NoFrame, path |-> ""]

\* what a step put on the wire: the frame, the handle it went to and the
\* client id the handle was taken for
Wire(websocket, client_id, frame, path) ==
  [to |-> websocket, client_id |-> client_id, frame |-> frame, path |-> path]

\* websocket.close(code): the close frame (code 0: no frame)
Close(code) ==
  IF code = 0 THEN NoFrame
  ELSE [NoFrame EXCEPT !.kind = "close", !.code = code]
NoData  == [shape |-> "none", size |-> 0]

\* bytes of json.dumps of a response of this kind that wraps n received
\* bytes (timestamps print with 18 characters)
json_size(kind, n, client_id) ==
  CASE kind = "pong"          -> 48
    [] kind = "echo_response" -> n + 80
    [] kind = "broadcast"     -> n + 45 + len(client_id)
    [] kind = "text_echo"     -> n + 80 + len(client_id)
    [] kind = "unknown"       -> 90
    [] kind = "failed"        -> 38

Frame(kind, n, client_id) ==
  [NoFrame EXCEPT !.kind = kind, !.size = json_size(kind, n, client_id),
                  !.from = IF kind \in {"broadcast", "text_echo"}
                           THEN client_id ELSE ""]

\* the error of the receive loop, lines 225-229
InboundTooLarge(message_bytes) ==
  [NoFrame EXCEPT !.kind = "too_large",
                  !.limit = settings.websocket_max_message_size,
                  !.actual = message_bytes]

\* the error of send_personal_message, lines 112-115
OutboundTooLarge(message_bytes) ==
  [NoFrame EXCEPT !.kind = "too_large",
                  !.limit = settings.websocket_max_message_size]

\* the rejection of the receive loop, lines 243-246
RateLimited(rate_check) ==
  [NoFrame EXCEPT !.kind = "rate_limited",
                  !.retry_after = <<rate_check.reset_time - now>>]

\* what a client may send: the shape of the payload and its size in bytes.
\* "plain" is text that is no JSON, "undecodable" bytes that are no UTF-8,
\* "non_object" JSON that is no object, "unknown" an object of another type.
Shapes == {"ping", "echo", "broadcast", "unknown", "plain",
           "no_type", "broadcast_no_message", "non_object", "undecodable"}

\* shapes that are sent short only
ShortShapes == {"no_type", "broadcast_no_message", "non_object",
                "undecodable"}
Wrapper(shape) ==
  CASE shape = "echo" -> "echo_response"
    [] shape = "broadcast" -> "broadcast"
    [] shape = "plain" -> "text_echo"
    [] OTHER -> "none"
Sizes(shape, client_id) ==
  LET max == websocket_max_message_size
      w   == Wrapper(shape)
  IN  IF shape \in ShortShapes THEN {SmallSize}
      ELSE
      {SmallSize, max, max + 1}
      \cup (IF w = "none" THEN {}
            ELSE {max - json_size(w, 0, client_id),
                  max - json_size(w, 0, client_id) + 1})
Data(client_id) ==
  UNION {{[shape |-> shape, size |-> size] :
            size \in Sizes(shape, client_id)} : shape \in Shapes}

\* broadcasts only: a short one, and one that is a byte too large
Broadcasts(client_id) ==
  {[shape |-> "broadcast", size |-> SmallSize],
   [shape |-> "broadcast", size |-> websocket_max_message_size + 1]}

\* ------------------------------------------------- websocket_endpoint
NoIter == [pos |-> 0, used |-> 0, len |-> 0]
NoBroadcast == [sender |-> 0, targets |-> {}, delivered |-> {}, failed |-> {},
                quiet |-> TRUE, raised |-> FALSE, oversize |-> FALSE]
NoSession ==
  [pc |-> "none", client_id |-> "", received |-> 0,
   data |-> NoData, message |-> NoFrame, target |-> "", websocket |-> 0,
   ctx |-> "", it |-> NoIter, disconnected_clients |-> {},
   snapshot |-> <<>>, history |-> NoBroadcast]

\* the locals of a session between two received messages
Rest(s) ==
  [NoSession EXCEPT !.client_id = s.client_id, !.received = s.received]

\* the outcome of a step of session p: the registry, the session's locals,
\* the frame put on the wire and the broadcast that ended, if any
Apply(p, o) ==
  /\ active_connections' = o.reg.active
  /\ connection_metadata' = o.reg.meta
  /\ sess' = [sess EXCEPT ![p] = o.s]
  /\ wire' = o.wire
  /\ done' = o.done
  /\ UNCHANGED http

Begin(p) == [p |-> p, reg |-> Registry, s |-> sess[p], wire |-> NoWire,
             done |-> NoBroadcast]

\* the receive loop goes round: await websocket.receive()
Receiving(o) == [o EXCEPT !.s = [Rest(o.s) EXCEPT !.pc = "receive"]]

\* mutant: the endpoint is over without its finally
Exit_leak(o) == [o EXCEPT !.s = [Rest(o.s) EXCEPT !.pc = "closed"]]

\* the endpoint's finally: disconnect(client_id), and the endpoint is over
Exit(o) ==
  [o EXCEPT !.reg = disconnect(o.reg, o.s.client_id),
            !.s = [Rest(o.s) EXCEPT !.pc = "closed"]]

\* the endpoint returns before its try block, closing with code (0: no
\* close)
Refused(o, client_id, code) ==
  [o EXCEPT !.s = [NoSession EXCEPT !.pc = "closed", !.client_id = client_id],
            !.wire = Wire(o.p, client_id, Close(code), "endpoint")]

RECURSIVE send_personal_message(_, _, _, _), broadcast_loop(_)

\* broadcast() raised: handle_message's except answers the sender,
\* lines 325-330
raised(o) ==
  send_personal_message(
    [o EXCEPT !.done = [o.s.history EXCEPT !.raised = TRUE],
              !.s = Rest(o.s)],
    Frame("failed", 0, o.s.client_id), o.s.client_id, "reply")

\* broadcast() is through its loop: cleanup, and handle_message returns
finished(o) ==
  Receiving([o EXCEPT !.reg = cleanup(o.reg, o.s.disconnected_clients),
                      !.done = o.s.history])

\* send_personal_message() returned success to its caller
returned(o, success, client_id) ==
  IF o.s.ctx = "broadcast"
  THEN broadcast_loop(
         [o EXCEPT !.s.disconnected_clients =
                      IF success THEN @ ELSE @ \cup {client_id}])
  ELSE Receiving(o)

\* send_personal_message(message, client_id) up to its suspension in
\* send_text, called from ctx
send_personal_message(o, message, client_id, ctx) ==
  LET called == [o EXCEPT !.s.ctx = ctx]
  IN  IF ~Contains(o.reg.active, client_id)
      THEN returned(called, FALSE, client_id)
      ELSE [called EXCEPT
              !.s.pc = IF message.size > settings.websocket_max_message_size
                       THEN "send_error" ELSE "send_text",
              !.s.websocket = GetItem(o.reg.active, client_id),
              !.s.target = client_id,
              !.s.message = message,
              !.s.snapshot = o.reg.active]

\* broadcast(): the for loop from the iterator's next() to the suspension in
\* the next delivery, or to the end of the loop
broadcast_loop(o) ==
  LET d    == o.reg.active
      it   == o.s.it
      i    == NextLive(d, it.pos)
  IN  IF dict_len(d) # it.used
      THEN raised(o)   \* RuntimeError: dictionary changed size
      ELSE IF i = 0
      THEN finished(o)
      ELSE IF it.len = 0
      THEN raised(o)   \* RuntimeError: dictionary keys changed
      ELSE LET on == [o EXCEPT !.s.it = [pos |-> i + 1, used |-> it.used,
                                         len |-> it.len - 1]]
           IN  IF d[i].key = o.s.client_id
               THEN broadcast_loop(on)
               ELSE send_personal_message(on, o.s.message, d[i].key,
                                          "broadcast")

\* broadcast(message, exclude_client = client_id) from its first line
broadcast(o, message) ==
  LET d == o.reg.active
  IN  broadcast_loop(
        [o EXCEPT !.s.message = message,
                  !.s.disconnected_clients = {},
                  !.s.it = [pos |-> 1, used |-> dict_len(d),
                            len |-> dict_len(d)],
                  !.s.history =
                     [NoBroadcast EXCEPT
                        !.sender = o.p,
                        !.targets = {d[i].value :
                           i \in {j \in LiveSlots(d) :
                                    d[j].key # o.s.client_id}},
                        !.oversize = message.size >
                           settings.websocket_max_message_size]])

\* mutant: the session is stored before the rate check is looked at
connected_early(o, rate_check) ==
  IF ~rate_check.allowed
  THEN Refused([o EXCEPT !.reg = store(o.reg, o.p, o.s.client_id)],
               o.s.client_id, 4008)
  ELSE [o EXCEPT !.s.pc = "accept"]

\* mutant: a denied connect also drops what is registered under the id
connected_evict(o, rate_check) ==
  IF ~rate_check.allowed
  THEN Refused([o EXCEPT !.reg = disconnect(o.reg, o.s.client_id)],
               o.s.client_id, 4008)
  ELSE [o EXCEPT !.s.pc = "accept"]

\* connect() after the rate check, lines 42-47
connected(o, rate_check) ==
  IF ~rate_check.allowed
  THEN Refused(o, o.s.client_id, 4008)
  ELSE [o EXCEPT !.s.pc = "accept"]

\* handle_text_message(), lines 342-348
handle_text_message(o) ==
  send_personal_message(
    o, Frame("text_echo", o.s.data.size, o.s.client_id), o.s.client_id,
    "reply")

\* handle_message(), lines 286-323
handle_message(o) ==
  LET shape == o.s.data.shape
  IN  IF shape = "ping"
      THEN send_personal_message(o, Frame("pong", 0, o.s.client_id),
                                 o.s.client_id, "reply")
      ELSE IF shape = "echo"
      THEN send_personal_message(
             o, Frame("echo_response", o.s.data.size, o.s.client_id),
             o.s.client_id, "reply")
      ELSE IF shape = "broadcast"
      THEN broadcast(o, Frame("broadcast", o.s.data.size, o.s.client_id))
      ELSE IF shape = "broadcast_no_message"
      THEN Receiving(o)   \* line 306: nothing is sent
      ELSE IF shape = "non_object"
      THEN \* message_data.get raises AttributeError: lines 325-330
           send_personal_message(o, Frame("failed", 0, o.s.client_id),
                                 o.s.client_id, "reply")
      ELSE send_personal_message(o, Frame("unknown", 0, o.s.client_id),
                                 o.s.client_id, "reply")

\* mutant: the unit is counted before the decision is looked at
rate_checked_counted(o, rate_check) ==
  LET counted == [o EXCEPT !.reg = received_metrics(
                              o.reg, o.s.client_id, o.s.data.size)]
  IN  IF ~rate_check.allowed
      THEN [counted EXCEPT !.s.pc = "reject_rate",
                           !.s.message = RateLimited(rate_check)]
      ELSE IF o.s.data.shape = "plain"
           THEN handle_text_message(counted)
           ELSE handle_message(counted)

\* the receive loop after the rate check, lines 242-263
rate_checked(o, rate_check) ==
  IF ~rate_check.allowed
  THEN [o EXCEPT !.s.pc = "reject_rate",
                 !.s.message = RateLimited(rate_check)]
  ELSE LET counted == [o EXCEPT !.reg = received_metrics(
                                   o.reg, o.s.client_id, o.s.data.size)]
       IN  IF o.s.data.shape = "plain"
           THEN handle_text_message(counted)
           ELSE handle_message(counted)

\* session p after a step of its is_allowed call: on with the decision if
\* the call returned in this step, else still suspended in it
Checked(p, o) ==
  IF rl'[p].pc # "idle" THEN o
  ELSE IF o.s.pc = "connect" THEN connected(o, last'.res)
  ELSE rate_checked(o, last'.res)

\* a step that leaves the limiter and the store alone
NoLimiter ==
  /\ last' = NoReturn
  /\ UNCHANGED <<now, storeVars, settings, script_sha, managerVars, rl>>

\* a step that leaves the sessions alone
NoSessions ==
  /\ wire' = NoWire
  /\ done' = NoBroadcast
  /\ UNCHANGED <<active_connections, connection_metadata, sess, http>>

\* mutant: an id of 100 characters is refused as well
websocket_endpoint_short(p) ==
  /\ sess[p].pc = "none"
  /\ \A q \in Sessions : q < p => sess[q].pc # "none"
  /\ Cardinality({q \in Sessions : sess[q].pc \in {"connect", "accept"}})
       < MaxPending
  /\ \E client_id \in ClientIds :
       IF len(client_id) = 0 \/ len(client_id) >= 100
       THEN /\ Apply(p, Refused(Begin(p), client_id, 4000))
            /\ NoLimiter
       ELSE /\ is_allowed(p, <<"ws_connect", client_id>>, 0, 0, 0)
            /\ Apply(p, Checked(p, [Begin(p) EXCEPT
                                      !.s.client_id = client_id,
                                      !.s.pc = "connect"]))

\* a client opens /ws/{client_id}: validation, then connect() up to its
\* first suspension.  Connections are numbered in the order they are opened.
websocket_endpoint(p) ==
  /\ sess[p].pc = "none"
  /\ \A q \in Sessions : q < p => sess[q].pc # "none"
  /\ Cardinality({q \in Sessions : sess[q].pc \in {"connect", "accept"}})
       < MaxPending
  /\ \E client_id \in ClientIds :
       IF len(client_id) = 0 \/ len(client_id) > 100
       THEN /\ Apply(p, Refused(Begin(p), client_id, 4000))
            /\ NoLimiter
       ELSE /\ is_allowed(p, <<"ws_connect", client_id>>, 0, 0, 0)
            /\ Apply(p, Checked(p, [Begin(p) EXCEPT
                                      !.s.client_id = client_id,
                                      !.s.pc = "connect"]))

\* the is_allowed call of session p takes a step
RateCheck(p) ==
  /\ sess[p].pc \in {"connect", "rate_check"}
  /\ RLStep(p)
  /\ Apply(p, Checked(p, Begin(p)))

\* websocket.accept() returns, or raises
Accept(p) ==
  /\ sess[p].pc = "accept"
  /\ \E ok \in BOOLEAN :
       LET o == Begin(p)
       IN  Apply(p, IF ok
                    THEN Receiving([o EXCEPT !.reg =
                                      store(o.reg, p, o.s.client_id)])
                    ELSE Refused(o, o.s.client_id, 0))
  /\ NoLimiter

\* websocket.receive() returns a disconnect, or raises
Disconnected(p) ==
  /\ sess[p].pc = "receive"
  /\ Apply(p, Exit(Begin(p)))
  /\ NoLimiter

\* how many messages the sessions have received
RECURSIVE Count(_)
Count(S) == IF S = {} THEN 0
            ELSE LET p == CHOOSE p \in S : TRUE
                 IN  sess[p].received + Count(S \ {p})
Received == Count(Sessions)

\* websocket.receive() returns a message, one of those offered, while fewer
\* than budget messages were received: size check, decoding, then the rate
\* check up to its first suspension
Receive(p, offered, budget) ==
  /\ sess[p].pc = "receive"
  /\ Received < budget
  /\ \E data \in offered :
          LET size == data.size
              o == [Begin(p) EXCEPT !.s.received = @ + 1, !.s.data = data]
          IN  IF size > settings.websocket_max_message_size
              THEN /\ Apply(p, [o EXCEPT !.s.pc = "reject_size",
                                         !.s.message = InboundTooLarge(size)])
                   /\ NoLimiter
              ELSE IF data.shape = "undecodable"
              THEN \* line 234: decode raises, the endpoint's finally runs
                   /\ Apply(p, Exit(o))
                   /\ NoLimiter
              ELSE /\ is_allowed(p, <<"ws_message", sess[p].client_id>>,
                                 0, 0, 0)
                   /\ Apply(p, Checked(p, [o EXCEPT !.s.pc = "rate_check"]))

\* mutant: the rejection is sent and the endpoint ends
Reject_fatal(p) ==
  /\ sess[p].pc \in {"reject_size", "reject_rate"}
  /\ LET o == Begin(p)
     IN  Apply(p, Exit([o EXCEPT !.wire =
                          Wire(p, o.s.client_id, o.s.message, "inbound")]))
  /\ NoLimiter

\* the receive loop's own send_text (lines 225 and 243) returns, or raises
Reject(p) ==
  /\ sess[p].pc \in {"reject_size", "reject_rate"}
  /\ \E ok \in BOOLEAN :
       LET o == Begin(p)
       IN  Apply(p, IF ok
                    THEN Receiving([o EXCEPT !.wire =
                                      Wire(p, o.s.client_id, o.s.message,
                                           "inbound")])
                    ELSE Exit(o))
  /\ NoLimiter

\* send_personal_message(): send_text returns, or raises (lines 112-132)
SendText(p) ==
  /\ sess[p].pc \in {"send_text", "send_error"}
  /\ \E ok \in BOOLEAN :
       LET s == sess[p]
           o == [Begin(p) EXCEPT !.s.history.quiet =
                                    @ /\ active_connections = s.snapshot]
       IN  Apply(p,
             IF ~ok
             THEN returned([o EXCEPT !.reg = disconnect(o.reg, s.target),
                                     !.s.history.failed =
                                        @ \cup {s.websocket}],
                           FALSE, s.target)
             ELSE IF s.pc = "send_error"
             THEN returned([o EXCEPT !.wire =
                              Wire(s.websocket, s.target,
                                   OutboundTooLarge(s.message.size),
                                   "outbound")],
                           FALSE, s.target)
             ELSE returned([o EXCEPT !.wire =
                              Wire(s.websocket, s.target, s.message,
                                   "outbound"),
                                     !.reg = sent_metrics(
                                        o.reg, s.target, s.message.size),
                                     !.s.history.delivered =
                                        @ \cup {s.websocket}],
                           TRUE, s.target))
  /\ NoLimiter

\* ------------------------------------------- rate_limiting_middleware
\* request.url.path, character by character
HealthPrefix == <<"/", "h", "e", "a", "l", "t", "h">>
Paths ==
  { <<"/">>,                      \* the root route
    HealthPrefix \o <<"/">>,      \* the health router
    HealthPrefix \o <<"z">> }     \* no route at all

\* str.startswith
startswith(s, prefix) ==
  Len(s) >= Len(prefix) /\ SubSeq(s, 1, Len(prefix)) = prefix

\* int(): truncation towards zero of a / b
int(a, b) == IF a >= 0 THEN a \div b ELSE -((-a) \div b)

\* the identity the middleware gives a request: the first address of
\* X-Forwarded-For when the header is there, else the peer's address
client_ip(host, forwarded_for) ==
  IF forwarded_for # <<>> THEN forwarded_for[1] ELSE host

NoResponse == [status_code |-> 0, retry_after |-> 0, limit |-> 0,
               remaining |-> 0, rate_headers |-> FALSE]

\* served: the requests the coroutine has taken; invoked: how often
\* call_next was called for the request
NoRequest == [pc |-> "none", path |-> <<>>, client_ip |-> "",
              invoked |-> 0, rate_check |-> NoDecision,
              response |-> NoResponse, served |-> 0]

\* a step that leaves the sessions and the history alone
HttpOnly ==
  /\ wire' = NoWire
  /\ done' = NoBroadcast
  /\ UNCHANGED <<active_connections, connection_metadata, sess, histVars>>

\* await call_next(request): the downstream handler is entered
Invoke(r, pc) == [r EXCEPT !.pc = pc, !.invoked = @ + 1]

\* mutant: the handler is entered whatever the decision was
Limited_after(r, rate_check) ==
  Invoke([r EXCEPT !.rate_check = rate_check], "call_next")

\* the middleware once is_allowed has returned rate_check: the 429 response
\* with the retry metadata, or the downstream handler (lines 138-158)
Limited(r, rate_check) ==
  IF ~rate_check.allowed
  THEN [r EXCEPT !.pc = "done",
                 !.rate_check = rate_check,
                 !.response =
                    [status_code  |-> 429,
                     retry_after  |-> int(rate_check.reset_time - now,
                                          SecTicks),
                     limit        |-> rate_check.limit,
                     remaining    |-> rate_check.remaining,
                     rate_headers |-> TRUE]]
  ELSE Invoke([r EXCEPT !.rate_check = rate_check], "call_next")

\* the request r of coroutine p after a step of its is_allowed call
Consulted(p, r) ==
  IF rl'[p].pc # "idle" THEN r ELSE Limited(r, last'.res)

\* a request arrives: the identity is extracted, a path under /health goes
\* straight to the handler, any other one to the limiter first
rate_limiting_middleware(p) ==
  /\ http[p].pc \in {"none", "done"}
  /\ http[p].served < MaxRequests
  /\ \E host \in Hosts, header \in BOOLEAN, path \in Paths :
       LET forwarded_for ==
             IF header THEN <<CHOOSE a \in Forwarded : TRUE, host>>
             ELSE <<>>
           r == [NoRequest EXCEPT
                   !.path = path,
                   !.client_ip = client_ip(host, forwarded_for),
                   !.served = http[p].served + 1]
       IN  IF startswith(path, HealthPrefix)
           THEN /\ http' = [http EXCEPT ![p] = Invoke(r, "call_next")]
                /\ NoLimiter
           ELSE /\ is_allowed(p, <<"ip", r.client_ip>>, 0, 0, 0)
                /\ http' = [http EXCEPT ![p] =
                              Consulted(p, [r EXCEPT !.pc = "is_allowed"])]
  /\ HttpOnly

\* the is_allowed call of the request of coroutine p takes a step
HttpRateCheck(p) ==
  /\ http[p].pc = "is_allowed"
  /\ RLStep(p)
  /\ http' = [http EXCEPT ![p] = Consulted(p, http[p])]
  /\ HttpOnly

\* the downstream handler returns a response, to which the middleware adds
\* the rate-limit headers of a checked request, or raises: the except branch
\* calls call_next a second time (lines 158-172)
call_next(p) ==
  /\ http[p].pc = "call_next"
  /\ \E ok \in BOOLEAN :
       http' = [http EXCEPT ![p] =
                  IF ok
                  THEN [@ EXCEPT !.pc = "done",
                                 !.response =
                                    [NoResponse EXCEPT
                                       !.status_code = 200,
                                       !.limit = http[p].rate_check.limit,
                                       !.remaining =
                                          http[p].rate_check.remaining,
                                       !.rate_headers =
                                          ~startswith(http[p].path,
                                                      HealthPrefix)]]
                  ELSE Invoke(@, "call_next_again")]
  /\ NoLimiter
  /\ HttpOnly

\* the second call_next returns, or raises out of the middleware
call_next_again(p) ==
  /\ http[p].pc = "call_next_again"
  /\ \E ok \in BOOLEAN :
       http' = [http EXCEPT ![p] =
                  [@ EXCEPT !.pc = "done",
                            !.response =
                               [NoResponse EXCEPT
                                  !.status_code =
                                     IF ok THEN 200 ELSE 500]]]
  /\ NoLimiter
  /\ HttpOnly

\* --------------------------------------------- the rate limiter on its own
Settings ==
  [rate_limit_requests : 1..MaxLimit,
   rate_limit_window   : 1..MaxWindow,
   rate_limit_burst    : {rate_limit_burst},
   websocket_max_message_size : {websocket_max_message_size}]

Init ==
  /\ now = 0
  /\ scriptCached = FALSE
  /\ zset = [k \in Keys |-> {}]
  /\ expireAt = [k \in Keys |-> Never]
  /\ settings \in Settings
  /\ script_sha = None
  /\ pool = None
  /\ redis = None
  /\ lock = NoHolder
  /\ lock_waiters = <<>>
  /\ rl = [p \in Tasks |-> IdleCall]
  /\ last = NoReturn
  /\ admitted = [k \in Keys |-> [t \in Time |-> 0]]
  /\ lastTime = [k \in Keys |-> Never]
  /\ ordered = [k \in Keys |-> TRUE]
  /\ seen = 0
  /\ active_connections = <<>>
  /\ connection_metadata = [c \in {} |-> NewMetadata]
  /\ sess = [p \in Sessions |-> NoSession]
  /\ wire = NoWire
  /\ done = NoBroadcast
  /\ http = [p \in Procs |-> NoRequest]

\* a caller asks for a decision, with or without explicit limit and window
Call(p) ==
  \E identifier \in RLIdentifiers, explicit \in BOOLEAN :
       is_allowed(p, identifier,
                  IF explicit THEN settings.rate_limit_requests ELSE 0,
                  IF explicit THEN settings.rate_limit_window ELSE 0,
                  0)

Next ==
  \/ \E p \in Procs : Call(p) /\ UNCHANGED <<histVars, appVars>>
  \/ \E p \in Procs : RLStep(p) /\ UNCHANGED <<histVars, appVars>>
  \/ Tick /\ UNCHANGED <<histVars, appVars>>
  \/ ScriptFlush /\ UNCHANGED <<histVars, appVars>>

Spec == Init /\ [][Next]_vars

\* ------------------------------- the limiter with the application's close
NextManager ==
  \/ \E p \in Procs : Call(p) /\ UNCHANGED <<histVars, appVars>>
  \/ \E p \in Procs : RLStep(p) /\ UNCHANGED <<histVars, appVars>>
  \/ \E p \in Procs : close_redis(p) /\ UNCHANGED <<histVars, appVars>>
  \/ \E p \in Procs : CloseStep(p) /\ UNCHANGED <<histVars, appVars>>
  \/ ScriptFlush /\ UNCHANGED <<histVars, appVars>>

SpecManager == Init /\ [][NextManager]_vars

\* the event loop runs every coroutine that is ready: a step of a call that
\* stays possible is taken
LiveManager ==
  /\ SpecManager
  /\ \A p \in Procs :
        WF_vars((RLStep(p) \/ CloseStep(p)) /\ UNCHANGED <<histVars, appVars>>)

\* ------------------------- one caller, with the history of its decisions
\* history: how many calls the script admitted for key k at times in (lo, hi]
RECURSIVE Sum(_, _)
Sum(f, S) == IF S = {} THEN 0
             ELSE LET x == CHOOSE x \in S : TRUE IN f[x] + Sum(f, S \ {x})
Admitted(k, lo, hi) == Sum(admitted[k], {t \in Time : t > lo /\ t <= hi})

\* history: times that no call still to be executed can have in its window
Horizon(time, frames) ==
  LET pending == {frames[p].current_time :
                    p \in {q \in Procs : frames[q].pc = "evalsha"}}
      least   == CHOOSE t \in pending \cup {time} :
                    \A u \in pending \cup {time} : t <= u
  IN  least - (MaxWindow * SecTicks)
Forget(adm, time, frames) ==
  LET h == Horizon(time, frames)
  IN  [k \in Keys |-> [t \in Time |-> IF t <= h THEN 0 ELSE adm[k][t]]]

\* history kept along a step of process p: a script execution is counted
Record(p) ==
  IF rl[p].pc = "evalsha" /\ rl'[p].pc = "idle" /\ ~last'.res.error
  THEN LET k == Key(last'.identifier)
           c == last'.current_time
       IN  /\ seen' = Admitted(k, c - last'.window * SecTicks, c)
           /\ admitted' = Forget(
                [admitted EXCEPT ![k][c] =
                   IF last'.res.allowed /\ @ <= MaxLimit THEN @ + 1 ELSE @],
                now, rl')
           /\ lastTime' = [lastTime EXCEPT ![k] = Max(@, c)]
           /\ ordered' = [ordered EXCEPT ![k] = @ /\ c > lastTime[k]]
  ELSE /\ seen' = 0
       /\ admitted' = Forget(admitted, now', rl')
       /\ UNCHANGED <<lastTime, ordered>>

NextSeq ==
  \/ Call(1) /\ Record(1) /\ UNCHANGED appVars
  \/ RLStep(1) /\ Record(1) /\ UNCHANGED appVars
  \/ Tick /\ Record(1) /\ UNCHANGED appVars
  \/ ScriptFlush /\ Record(1) /\ UNCHANGED appVars

SpecSeq == Init /\ [][NextSeq]_vars

\* ------------------------- the limiter with its administrative operations
\* identifiers that are reset and inspected: the one that is limited and
\* one that was never seen
AdminIdentifiers == RLIdentifiers \cup {<<"ws_connect", "a">>}

\* the first coroutine serves requests; the others administer
Callers == {1}
Admins  == Procs \ Callers

NextAdmin ==
  \/ \E p \in Callers, identifier \in RLIdentifiers :
        is_allowed(p, identifier, 0, 0, 0) /\ UNCHANGED <<histVars, appVars>>
  \/ \E p \in Procs : RLStep(p) /\ UNCHANGED <<histVars, appVars>>
  \/ \E p \in Admins, identifier \in AdminIdentifiers :
        reset_limit(p, identifier) /\ UNCHANGED <<histVars, appVars>>
  \/ \E p \in Admins, identifier \in AdminIdentifiers :
        get_stats(p, identifier) /\ UNCHANGED <<histVars, appVars>>
  \/ \E p \in Admins : AdminStep(p) /\ UNCHANGED <<histVars, appVars>>
  \/ Tick /\ UNCHANGED <<histVars, appVars>>

SpecAdmin == Init /\ [][NextAdmin]_vars

\* ------------------------------------------- the sessions and the limiter
\* the application has started (main.py, lifespan): the store client is
\* initialized and the script loaded; the limit is the smallest, 1
Started(limits) ==
  /\ now = 0
  /\ scriptCached = TRUE
  /\ zset = [k \in Keys |-> {}]
  /\ expireAt = [k \in Keys |-> Never]
  /\ settings \in {s \in Settings : s.rate_limit_requests \in limits}
  /\ script_sha = "sha"
  /\ pool = "pool"
  /\ redis = "client"
  /\ lock = NoHolder
  /\ lock_waiters = <<>>
  /\ rl = [p \in Tasks |-> IdleCall]
  /\ last = NoReturn
  /\ admitted = [k \in Keys |-> [t \in Time |-> 0]]
  /\ lastTime = [k \in Keys |-> Never]
  /\ ordered = [k \in Keys |-> TRUE]
  /\ seen = 0
  /\ active_connections = <<>>
  /\ connection_metadata = [c \in {} |-> NewMetadata]
  /\ sess = [p \in Sessions |-> NoSession]
  /\ wire = NoWire
  /\ done = NoBroadcast
  /\ http = [p \in Procs |-> NoRequest]

InitWS == Started({1})

NextWS ==
  \/ \E p \in Sessions : websocket_endpoint(p) /\ UNCHANGED histVars
  \/ \E p \in Sessions : RateCheck(p) /\ UNCHANGED histVars
  \/ \E p \in Sessions : Accept(p) /\ UNCHANGED histVars
  \/ \E p \in Sessions : Disconnected(p) /\ UNCHANGED histVars
  \/ \E p \in Sessions :
        Receive(p, Broadcasts(sess[p].client_id), MaxMsgs)
        /\ UNCHANGED histVars
  \/ \E p \in Sessions : Reject(p) /\ UNCHANGED histVars
  \/ \E p \in Sessions : SendText(p) /\ UNCHANGED histVars

SpecWS == InitWS /\ [][NextWS]_vars

\* the positions of a connection attempt before it is accepted
Pending == {"none", "connect", "accept"}

\* the positions of a session that was accepted and is in its receive loop
InLoop == {"receive", "reject_size", "reject_rate", "rate_check",
           "send_text", "send_error"}

\* ----------------------------- two sessions and messages of every shape
Pair == {p \in Sessions : p <= NProcs + 2}

NextSize ==
  \/ \E p \in Pair : websocket_endpoint(p) /\ UNCHANGED histVars
  \/ \E p \in Pair : RateCheck(p) /\ UNCHANGED histVars
  \/ \E p \in Pair : Accept(p) /\ UNCHANGED histVars
  \/ \E p \in Pair : Disconnected(p) /\ UNCHANGED histVars
  \/ \E p \in Pair :
        Receive(p, Data(sess[p].client_id), MaxMsgs)
        /\ UNCHANGED histVars
  \/ \E p \in Pair : Reject(p) /\ UNCHANGED histVars
  \/ \E p \in Pair : SendText(p) /\ UNCHANGED histVars

SpecSize == InitWS /\ [][NextSize]_vars

\* the session whose peer stops reading: a send to it may never return
Slow == NProcs + 2

\* the steps of the coroutine of session p that wait for no peer's input and
\* for no send to the slow one: the event loop takes them when they are ready
Runs(p) ==
  \/ RateCheck(p)
  \/ p # Slow /\ (Accept(p) \/ Reject(p))
  \/ sess[p].websocket # Slow /\ SendText(p)

LiveSize ==
  /\ SpecSize
  /\ \A p \in Pair : WF_vars(Runs(p) /\ UNCHANGED histVars)

\* ---------------------------- two sessions, more than one short message
\* short messages: a ping, or text that is not JSON
Short(client_id) ==
  {data \in Data(client_id) :
     data.size = SmallSize /\ data.shape \in {"ping", "plain"}}

InitLoop == Started(1..MaxLimit)

NextLoop ==
  \/ \E p \in Pair : websocket_endpoint(p) /\ UNCHANGED histVars
  \/ \E p \in Pair : RateCheck(p) /\ UNCHANGED histVars
  \/ \E p \in Pair : Accept(p) /\ UNCHANGED histVars
  \/ \E p \in Pair : Disconnected(p) /\ UNCHANGED histVars
  \/ \E p \in Pair :
        Receive(p, Short(sess[p].client_id), MaxLoopMsgs)
        /\ UNCHANGED histVars
  \/ \E p \in Pair : Reject(p) /\ UNCHANGED histVars
  \/ \E p \in Pair : SendText(p) /\ UNCHANGED histVars

SpecLoop == InitLoop /\ [][NextLoop]_vars

\* ------------------------------------------ the requests and the limiter
\* the coroutines serve HTTP requests while the clock advances
NextHTTP ==
  \/ \E p \in Procs : rate_limiting_middleware(p)
  \/ \E p \in Procs : HttpRateCheck(p)
  \/ \E p \in Procs : call_next(p)
  \/ \E p \in Procs : call_next_again(p)
  \/ Tick /\ UNCHANGED <<histVars, appVars>>

SpecHTTP == InitWS /\ [][NextHTTP]_vars

\* the latest step returned a decision computed by the script
Decided ==
  last.op = "is_allowed" /\ last.identifier # NoIdentifier /\ ~last.res.error

\* the entries of the latest call's sorted set that were at most one window
\* old when the call was made
Fresh(entries) ==
  {e \in entries : e.score + last.window * SecTicks > last.current_time}

\* C1 (as claimed): with a fixed limit and window and calls that come with
\* distinct, non-decreasing times, a call is allowed exactly when fewer than
\* limit calls were allowed in the window ending at its time, and a denied
\* call has remaining = 0.
C1_WindowCorrectness ==
  (Decided /\ ordered[Key(last.identifier)]) =>
     /\ last.res.allowed <=> (seen < last.limit)
     /\ ~last.res.allowed => last.res.remaining = 0

\* C2 (as claimed): a call that met a store failure returns allowed = true
\* with an error annotation, and no call blocks forever: none waits for the
\* manager's lock while holding that lock itself.
C2_FailOpen ==
  /\ last.res.error => last.res.allowed
  /\ \A p \in Procs : ~(rl[p].pc = "close_lock" /\ lock = p)

\* C3 (as claimed): under any interleaving of concurrent calls the stored
\* entries of an identifier never exceed the limit, and a caller admitted on
\* the last free slot takes it: afterwards the set is full.
C3_AtomicAdmission ==
  /\ \A k \in Keys : Cardinality(zset[k]) <= settings.rate_limit_requests
  /\ (Decided /\ last.res.allowed
        /\ Cardinality(Fresh(last.before)) = last.limit - 1)
       => Cardinality(last.after) = last.limit

\* C4: an entry older than the window is never counted: what a call leaves
\* in the set is at most one window old, a denial rests on limit entries
\* that are, and with limit 1 a call made more than a window after every
\* entry is allowed.
C4_WindowExpiry ==
  Decided =>
     /\ \A e \in last.after :
          ~(last.current_time > e.score + last.window * SecTicks)
     /\ ~last.res.allowed =>
          Cardinality({e \in last.before :
             ~(last.current_time > e.score + last.window * SecTicks)})
          >= last.limit
     /\ (last.limit = 1 /\ \A e \in last.before :
             last.current_time > e.score + last.window * SecTicks)
          => last.res.allowed

\* C4 witness: with limit 1, a call made more than a window after the
\* recorded entry has been allowed
C4_Witness ==
  /\ Decided /\ last.limit = 1 /\ last.before # {}
  /\ \A e \in last.before :
       last.current_time > e.score + last.window * SecTicks
  /\ last.res.allowed

\* C5 (as claimed): with current_count the entries left after the trim, an
\* allowed call returns remaining = limit - current_count - 1 and
\* reset_time = now + window; a denied call returns remaining = 0 and
\* reset_time = oldest remaining score + window.
C5_DecisionFields ==
  Decided =>
     LET w      == last.window * SecTicks
         kept   == Fresh(last.before)
         oldest == CHOOSE e \in kept : \A o \in kept : e.score <= o.score
     IN  IF last.res.allowed
         THEN /\ last.res.remaining = last.limit - Cardinality(kept) - 1
              /\ last.res.reset_time = last.current_time + w
         ELSE /\ last.res.remaining = 0
              /\ last.res.reset_time = oldest.score + w

\* C6: in every state, suspension points included, an id is a key of
\* connection_metadata exactly when it is a key of active_connections.
C6_RegistryInvariant ==
  dict_keys(active_connections) = DOMAIN connection_metadata

\* C6 witness: a broadcast is suspended in a delivery while one session is
\* registered in both maps and another has been removed from both
C6_Witness ==
  /\ \E p \in Sessions : sess[p].pc = "send_text" /\ sess[p].ctx = "broadcast"
  /\ \E i \in DOMAIN active_connections : ~active_connections[i].live
  /\ dict_len(active_connections) >= 2
  /\ dict_keys(active_connections) = DOMAIN connection_metadata

\* C7 (as claimed): a broadcast to two other registered sessions in which
\* exactly one delivery fails does not abort: the payload reaches the other
\* session, the failing session is evicted and the other stays registered.
C7_BroadcastIsolation ==
  (/\ done.sender # 0 /\ done.quiet /\ ~done.oversize
   /\ Cardinality(done.targets) = 2
   /\ Cardinality(done.failed) = 1)
  => /\ ~done.raised
     /\ done.delivered = done.targets \ done.failed
     /\ \A h \in done.targets :
          h \in dict_values(active_connections) <=> h \notin done.failed

\* C8 (as claimed): inbound and outbound, a payload of the maximum size is
\* accepted, a payload one byte larger is rejected, and the error put on the
\* wire reports the limit and the actual size of the payload.
C8_SizeBoundary ==
  LET max == websocket_max_message_size
  IN  /\ \A p \in Sessions :
           /\ sess[p].data.shape # "none" =>
                (sess[p].pc = "reject_size" <=> sess[p].data.size >= max + 1)
           /\ sess[p].pc \in {"send_text", "send_error"} =>
                (sess[p].pc = "send_error" <=> sess[p].message.size >= max + 1)
      /\ wire.frame.kind = "too_large" =>
           /\ wire.frame.limit = max
           /\ wire.frame.actual >= max + 1

\* C9: an attempt with an id of length 0 or above 100 is closed with 4000,
\* touches neither the registry nor the limiter; an id of length 1 to 100 is
\* not refused as invalid, the limiter is consulted, an allowed attempt goes
\* on to accept the channel, and an accepted channel is registered.
C9_IdBounds ==
  [][\A p \in Sessions :
       LET id == sess'[p].client_id
       IN  /\ (sess[p].pc = "none" /\ sess'[p].pc # "none") =>
                IF len(id) = 0 \/ len(id) > 100
                THEN /\ sess'[p].pc = "closed"
                     /\ wire' = Wire(p, id, Close(4000), "endpoint")
                     /\ UNCHANGED <<active_connections, connection_metadata>>
                     /\ UNCHANGED <<rl, storeVars>>
                     /\ last' = NoReturn
                ELSE /\ wire'.frame.code # 4000
                     /\ \/ rl'[p].identifier = <<"ws_connect", id>>
                        \/ last'.identifier = <<"ws_connect", id>>
           /\ (/\ sess[p].pc \in {"none", "connect"}
               /\ sess'[p].pc \notin {"none", "connect"}
               /\ last'.identifier = <<"ws_connect", id>>
               /\ last'.res.allowed) => sess'[p].pc = "accept"
           /\ (sess[p].pc = "accept" /\ sess'[p].pc = "receive") =>
                /\ Contains(active_connections', id)
                /\ GetItem(active_connections', id) = p
                /\ id \in DOMAIN connection_metadata']_vars

\* C9 witness: an id of 101 characters has just been refused with 4000 while
\* a session with an id of 100 characters is registered
C9_Witness ==
  /\ \E p \in Sessions : wire = Wire(p, "long", Close(4000), "endpoint")
  /\ Contains(active_connections, "c")
  /\ "c" \in DOMAIN connection_metadata

\* C10: when the connect check is denied, the channel is closed with 4008,
\* the endpoint returns without entering its loop, and both maps are left
\* as they were.
C10_DenialLeavesRegistry ==
  [][\A p \in Sessions :
       (/\ sess[p].pc \in {"none", "connect"}
        /\ sess'[p].pc \notin {"none", "connect"}
        /\ last'.identifier = <<"ws_connect", sess'[p].client_id>>
        /\ ~last'.res.allowed)
       => /\ sess'[p].pc = "closed"
          /\ wire' = Wire(p, sess'[p].client_id, Close(4008), "endpoint")
          /\ UNCHANGED <<active_connections, connection_metadata>>]_vars

\* C10 witness: an attempt has just been closed with 4008 while another
\* session is registered under the same id
C10_Witness ==
  \E p \in Sessions :
     /\ wire = Wire(p, wire.client_id, Close(4008), "endpoint")
     /\ Contains(active_connections, wire.client_id)
     /\ GetItem(active_connections, wire.client_id) # p
     /\ wire.client_id \in DOMAIN connection_metadata

\* C11: for every registry and every id, after disconnect(id) the id is in
\* neither map, a second disconnect(id) changes nothing, and the entries of
\* all other ids are as they were.
C11_DisconnectIdempotent ==
  \A c \in ClientIds :
     LET once  == disconnect(Registry, c)
         twice == disconnect(once, c)
     IN  /\ ~Contains(once.active, c)
         /\ c \notin DOMAIN once.meta
         /\ twice = once
         /\ \A other \in ClientIds \ {c} :
              /\ Contains(once.active, other)
                   <=> Contains(active_connections, other)
              /\ Contains(once.active, other) =>
                   GetItem(once.active, other)
                     = GetItem(active_connections, other)
              /\ other \in DOMAIN once.meta
                   <=> other \in DOMAIN connection_metadata
              /\ other \in DOMAIN once.meta =>
                   once.meta[other] = connection_metadata[other]

\* C11 witness: two ids are registered, one of them with a message counted,
\* after an earlier disconnect has left its empty slot
C11_Witness ==
  /\ dict_len(active_connections) >= 2
  /\ \E i \in DOMAIN active_connections : ~active_connections[i].live
  /\ \E c \in DOMAIN connection_metadata :
       connection_metadata[c].messages_received > 0

\* C12: whenever the receive loop of an accepted session ends (disconnect
\* frame, receive or decoding raising, a failed send of the loop),
\* disconnect(id) has run when the endpoint returns: the id is in neither map.
C12_DisconnectOnExit ==
  [][\A p \in Sessions :
       (sess[p].pc \in InLoop /\ sess'[p].pc = "closed")
       => /\ sess[p].client_id \notin dict_keys(active_connections')
          /\ sess[p].client_id \notin DOMAIN connection_metadata']_vars

\* C12 witness: a session that had received a message is over and not
\* registered, while the other session is still registered
C12_Witness ==
  \E p, q \in Sessions :
     /\ sess[p].pc = "closed" /\ sess[p].received > 0
     /\ sess[p].client_id \notin dict_keys(active_connections)
     /\ sess[q].pc = "receive"
     /\ Contains(active_connections, sess[q].client_id)
     /\ GetItem(active_connections, sess[q].client_id) = q

\* C13: a handle enters the registry only in the step that ends its pending
\* phase with a successful accept; an attempt that is refused ends
\* unregistered; no position leads back to the pending phase, and the end of
\* the endpoint is final: a session that was removed is never registered
\* again.
C13_StateMachine ==
  [][\A p \in Sessions :
       /\ (p \in dict_values(active_connections')
           /\ p \notin dict_values(active_connections))
          => (sess[p].pc = "accept" /\ sess'[p].pc = "receive")
       /\ (sess[p].pc \in Pending /\ sess'[p].pc = "closed")
          => p \notin dict_values(active_connections')
       /\ sess[p].pc \in Pending => sess'[p].pc \in Pending \cup {"receive", "closed"}
       /\ sess[p].pc \in InLoop => sess'[p].pc \in InLoop \cup {"closed"}
       /\ sess[p].pc = "closed" => sess'[p] = sess[p]]_vars

\* C13 witness: an attempt has just been refused by the connect check, a
\* session that was registered has been removed, and a third is registered
C13_Witness ==
  /\ wire.frame = Close(4008)
  /\ sess[wire.to].pc = "closed"
  /\ \E i \in DOMAIN active_connections : ~active_connections[i].live
  /\ \E q \in Sessions :
        sess[q].pc = "receive" /\ q \in dict_values(active_connections)

\* C14: at no time do two sessions run their receive loops under one id: a
\* connect with an id that is registered replaces the entry and the former
\* session is evicted.
C14_IdUniqueness ==
  \A p, q \in Sessions :
     (p # q /\ sess[p].pc \in InLoop /\ sess[q].pc \in InLoop)
     => sess[p].client_id # sess[q].client_id

\* C15: a received unit larger than the maximum is rejected softly.  The
\* step that receives it consults no limiter, counts nothing and interprets
\* nothing; the next step of the session sends it the error with the limit
\* and the received size and returns to receiving with the registry as it
\* was, and the session ends there only if the error could not be sent.  No
\* unit above the maximum ever reaches the rate check or the interpreter.
C15_InboundOversizeSoft ==
  [][\A p \in Sessions :
       /\ (sess[p].pc = "receive" /\ sess'[p].received = sess[p].received + 1
           /\ sess'[p].data.size > settings.websocket_max_message_size)
          => /\ sess'[p].pc = "reject_size"
             /\ wire' = NoWire
             /\ UNCHANGED <<active_connections, connection_metadata, rl,
                            zset, expireAt>>
       /\ (sess[p].pc = "reject_size"
           /\ sess'[p].pc \notin {"reject_size", "closed"})
          => /\ sess'[p].pc = "receive"
             /\ wire'.to = p
             /\ wire'.frame.kind = "too_large"
             /\ wire'.frame.limit = settings.websocket_max_message_size
             /\ wire'.frame.actual = sess[p].data.size
             /\ UNCHANGED <<active_connections, connection_metadata, rl,
                            zset, expireAt>>
       /\ (sess[p].pc = "reject_size" /\ sess'[p].pc = "closed")
          => wire' = NoWire
       /\ sess'[p].pc \in {"rate_check", "send_text", "send_error"}
          => sess'[p].data.size <= settings.websocket_max_message_size]_vars

\* C15 witness: a registered session has just been sent the inbound error
\* for its first unit, is receiving again and has counted nothing
C15_Witness ==
  /\ wire.frame.kind = "too_large"
  /\ wire.path = "inbound"
  /\ wire.to \in Sessions
  /\ sess[wire.to].pc = "receive"
  /\ sess[wire.to].received = 1
  /\ Contains(active_connections, wire.client_id)
  /\ GetItem(active_connections, wire.client_id) = wire.to
  /\ connection_metadata[wire.client_id].messages_received = 0
  /\ connection_metadata[wire.client_id].bytes_received = 0

\* C16: a unit that the message-scoped rate check denies is rejected and
\* the session goes on.  The step in which the denial returns changes neither
\* map and sends nothing; the next step of the session sends it the rejection
\* with its retry-after and returns to receiving with both maps as they
\* were, and the session ends there only if the rejection could not be sent.
\* A receive counter grows only on the step in which the rate check of a
\* unit within the size limit returns an admission for the id, by one unit
\* and by the unit's bytes.
C16_RateDenialContinues ==
  [][/\ \A p \in Sessions :
          /\ (sess[p].pc \in {"receive", "rate_check"}
              /\ sess'[p].pc = "reject_rate")
             => /\ last'.identifier = <<"ws_message", sess[p].client_id>>
                /\ ~last'.res.allowed
                /\ wire' = NoWire
                /\ UNCHANGED <<active_connections, connection_metadata>>
          /\ (sess[p].pc = "reject_rate"
              /\ sess'[p].pc \notin {"reject_rate", "closed"})
             => /\ sess'[p].pc = "receive"
                /\ wire'.to = p
                /\ wire'.frame.kind = "rate_limited"
                /\ wire'.frame.retry_after # <<>>
                /\ UNCHANGED <<active_connections, connection_metadata>>
          /\ (sess[p].pc = "reject_rate" /\ sess'[p].pc = "closed")
             => wire' = NoWire
     /\ \A c \in DOMAIN connection_metadata \cap DOMAIN connection_metadata' :
          LET old == connection_metadata[c]
              new == connection_metadata'[c]
          IN  (new.messages_received > old.messages_received
               \/ new.bytes_received > old.bytes_received)
              => \E p \in Sessions :
                   /\ sess[p].client_id = c
                   /\ sess[p].pc \in {"receive", "rate_check"}
                   /\ sess'[p].received > 0
                   /\ last'.identifier = <<"ws_message", c>>
                   /\ last'.res.allowed
                   /\ new.messages_received = old.messages_received + 1
                   /\ new.bytes_received - old.bytes_received
                        \in 1..settings.websocket_max_message_size
                   /\ sess[p].pc = "rate_check"
                      => new.bytes_received
                           = old.bytes_received + sess[p].data.size]_vars

\* C16 witness: a registered session whose first unit was admitted and
\* counted has just been sent the rate rejection for its second unit and is
\* receiving again
C16_Witness ==
  /\ wire.frame.kind = "rate_limited"
  /\ wire.to \in Sessions
  /\ sess[wire.to].pc = "receive"
  /\ sess[wire.to].received = 2
  /\ Contains(active_connections, wire.client_id)
  /\ GetItem(active_connections, wire.client_id) = wire.to
  /\ connection_metadata[wire.client_id].messages_received = 1
  /\ connection_metadata[wire.client_id].bytes_received = SmallSize

\* the sent counters of client c are the same after the step
SentUnchanged(c) ==
  /\ connection_metadata'[c].messages_sent
       = connection_metadata[c].messages_sent
  /\ connection_metadata'[c].bytes_sent = connection_metadata[c].bytes_sent
  /\ connection_metadata'[c].last_activity
       = connection_metadata[c].last_activity

\* C17: a send_personal_message whose payload is larger than the maximum
\* does not transmit the payload, returns False (a broadcast lists the
\* target for cleanup) and leaves the sent counters and last_activity of
\* every session that stays registered as they were; a send that succeeds
\* adds exactly 1 to messages_sent and the payload's size to bytes_sent of
\* the target and leaves the others' alone; sent counters grow on no other
\* step.
C17_OutboundCounters ==
  [][\A c \in DOMAIN connection_metadata \cap DOMAIN connection_metadata' :
       LET old == connection_metadata[c]
           new == connection_metadata'[c]
       IN  /\ \A p \in Sessions :
                 (sess[p].pc = "send_error" /\ sess'[p] # sess[p])
                 => /\ SentUnchanged(c)
                    /\ wire'.frame.kind \in {"none", "too_large"}
                    /\ wire'.frame.size = 0
                    /\ sess[p].ctx = "broadcast"
                       => \/ sess[p].target \in sess'[p].disconnected_clients
                          \/ ~Contains(active_connections', sess[p].target)
                          \/ done'.raised
           /\ \A p \in Sessions :
                 (sess[p].pc = "send_text" /\ sess'[p] # sess[p])
                 => IF wire'.frame = sess[p].message /\ c = sess[p].target
                    THEN /\ new.messages_sent = old.messages_sent + 1
                         /\ new.bytes_sent
                              = old.bytes_sent + sess[p].message.size
                         /\ sess[p].message.size
                              <= settings.websocket_max_message_size
                    ELSE SentUnchanged(c)
           /\ (\A p \in Sessions :
                  sess[p].pc \notin {"send_text", "send_error"}
                  \/ sess'[p] = sess[p])
              => /\ new.messages_sent <= old.messages_sent
                 /\ new.bytes_sent <= old.bytes_sent]_vars

\* C17 witness: a registered session that has received a unit was sent the
\* outbound error in place of its reply and has no send counted
C17_Witness ==
  /\ wire.frame.kind = "too_large"
  /\ wire.path = "outbound"
  /\ wire.client_id \in DOMAIN connection_metadata
  /\ connection_metadata[wire.client_id].messages_received = 1
  /\ connection_metadata[wire.client_id].messages_sent = 0
  /\ connection_metadata[wire.client_id].bytes_sent = 0

\* C18: a received unit that passed the size and rate checks and cannot be
\* parsed is echoed to the sender in a text_echo wrapper, and the session
\* stays in its loop: receiving a unit never ends the session, a text_echo
\* is never replaced by an error, and the step that completes its send puts
\* it on the wire and returns to receiving, unless the transport failed.
C18_OpaqueFallback ==
  [][\A p \in Sessions :
       /\ (sess[p].pc = "receive" /\ sess'[p].received = sess[p].received + 1)
          => sess'[p].pc # "closed"
       /\ sess'[p].message.kind = "text_echo" => sess'[p].pc = "send_text"
       /\ (sess[p].pc = "send_text" /\ sess[p].message.kind = "text_echo"
           /\ sess'[p] # sess[p] /\ wire' # NoWire)
          => /\ wire'.frame = sess[p].message
             /\ wire'.client_id = sess[p].client_id
             /\ sess'[p].pc = "receive"]_vars

\* C19: an admitted ping is answered with one pong and an admitted echo of
\* any size within the inbound maximum with one echo_response that wraps
\* the received message: the step on which the rate check admits the unit
\* starts the send of the response, the response is never replaced by an
\* error, and the step that completes its send puts it on the wire for the
\* sender, unless the transport failed.
C19_CommandResponses ==
  [][\A p \in Sessions :
       /\ (sess[p].pc = "rate_check" /\ rl'[p].pc = "idle"
           /\ last'.res.allowed /\ sess[p].data.shape \in {"ping", "echo"})
          => /\ sess'[p].pc = "send_text"
             /\ sess'[p].target = sess[p].client_id
             /\ sess'[p].message =
                  IF sess[p].data.shape = "ping"
                  THEN Frame("pong", 0, sess[p].client_id)
                  ELSE Frame("echo_response", sess[p].data.size,
                             sess[p].client_id)
       /\ sess'[p].message.kind \in {"pong", "echo_response"}
          => sess'[p].pc = "send_text"
       /\ (sess[p].pc = "send_text"
           /\ sess[p].message.kind \in {"pong", "echo_response"}
           /\ sess'[p] # sess[p] /\ wire' # NoWire)
          => /\ wire'.frame = sess[p].message
             /\ wire'.client_id = sess[p].client_id]_vars

\* C20: an admitted message that parses and is no ping, no echo and no
\* broadcast with a message (another type, no type, a broadcast without a
\* message, a value that is no object) is answered with the "unknown
\* message type" response that lists the supported types: the step on which
\* the rate check admits the unit starts the send of that response to the
\* sender, and the step that completes the send puts it on the wire, unless
\* the transport failed.
C20_UnsupportedShapes ==
  [][\A p \in Sessions :
       /\ (sess[p].pc = "rate_check" /\ rl'[p].pc = "idle"
           /\ last'.res.allowed
           /\ sess[p].data.shape \in {"unknown", "no_type",
                                      "broadcast_no_message", "non_object"})
          => /\ sess'[p].pc = "send_text"
             /\ sess'[p].target = sess[p].client_id
             /\ sess'[p].message = Frame("unknown", 0, sess[p].client_id)
       /\ (sess[p].pc = "send_text" /\ sess[p].message.kind = "unknown"
           /\ sess'[p] # sess[p] /\ wire' # NoWire)
          => /\ wire'.frame = sess[p].message
             /\ wire'.client_id = sess[p].client_id]_vars

\* C21 (as claimed): a broadcast that ended with no delivery failure has
\* delivered its payload to every other session that was registered when it
\* started, and not to its sender; each delivery carries the sender's id and
\* the wrapped message and adds 1 to the recipient's messages_sent.
C21_BroadcastDelivery ==
  /\ (done.sender # 0 /\ done.failed = {} /\ ~done.oversize)
     => /\ done.delivered = done.targets
        /\ done.sender \notin done.delivered
  /\ (wire.frame.kind = "broadcast" /\ wire.path = "outbound")
     => /\ wire.frame.from # wire.client_id
        /\ wire.client_id \in DOMAIN connection_metadata
           => connection_metadata[wire.client_id].messages_sent >= 1

\* C22 (as claimed): the script cache of the store may be emptied after the
\* limiter loaded the script; a call that is at the store with its evalsha
\* can still get a decision computed by the script, with no error
\* annotation.
C22_TransparentReload ==
  \A p \in Procs :
     (rl[p].pc = "evalsha" /\ script_sha # None)
     => ENABLED (EvalSha(p) /\ ~last'.res.error)

\* C27 (as claimed): the trim of a call removes exactly the entries whose
\* score is strictly less than now - window: the member of an entry whose
\* score equals now - window is still in the set afterwards, and a call is
\* denied exactly when limit entries of score at least now - window were
\* there.
C27_TrimBoundary ==
  Decided =>
     LET bound == last.current_time - last.window * SecTicks
     IN  /\ \A e \in last.before :
              (e.score < bound)
              <=> (\A a \in last.after : a.member # e.member)
         /\ last.res.allowed
            <=> Cardinality({e \in last.before : e.score >= bound})
                  < last.limit

\* C28 (as claimed): an allowed call leaves one entry more in the set of its
\* identifier than its trim left, whatever the timestamps of the calls.
C28_UniqueEntries ==
  (Decided /\ last.res.allowed) =>
     Cardinality(last.after) = Cardinality(Fresh(last.before)) + 1

\* C26 (as claimed): a policy rejection removes no session from the
\* registry and ends no receive loop: the step that sends the inbound size
\* error, the rate rejection or the outbound size error, in a reply or in a
\* broadcast, leaves every registered id registered and no session ended.
C26_RejectionsNonFatal ==
  [][(wire'.frame.kind \in {"too_large", "rate_limited"})
     => /\ dict_keys(active_connections) \subseteq
             dict_keys(active_connections')
        /\ DOMAIN connection_metadata \subseteq DOMAIN connection_metadata'
        /\ \A p \in Sessions :
             sess[p].pc \in InLoop => sess'[p].pc \in InLoop]_vars

\* C30 (as claimed): a broadcast works on a snapshot: whatever connects or
\* disconnects while it is suspended in a send, a broadcast none of whose
\* sends failed ends without raising and has attempted the delivery to
\* every session that was registered when it started and still is when it
\* ends.
C30_BroadcastSnapshot ==
  (done.sender # 0 /\ ~done.oversize /\ done.failed = {})
  => /\ ~done.raised
     /\ \A h \in done.targets :
          h \in dict_values(active_connections)
          => h \in done.delivered \cup done.failed

\* C23: a reset_limit that returns True has left the identifier's window
\* empty, and no reset_limit touches the window or the expiry of another
\* identifier; a script execution that finds the window empty, as the next
\* call after a reset does, allows the call with current_count = 1 and
\* remaining = limit - 1.
C23_Reset ==
  [][/\ (last'.op = "reset_limit" /\ last'.result.ok)
        => zset'[Key(last'.identifier)] = {}
     /\ last'.op = "reset_limit"
        => \A k \in Keys \ {Key(last'.identifier)} :
              zset'[k] = zset[k] /\ expireAt'[k] = expireAt[k]
     /\ (last'.op = "is_allowed" /\ ~last'.res.error /\ last'.before = {})
        => /\ last'.res.allowed
           /\ last'.res.current_count = 1
           /\ last'.res.remaining = last'.limit - 1]_vars

\* C23 witness: a reset_limit has returned True for an identifier whose
\* window was full, and the window is empty
C23_Witness ==
  /\ last.op = "reset_limit"
  /\ last.result.ok
  /\ Cardinality(last.before) = settings.rate_limit_requests
  /\ zset[Key(last.identifier)] = {}

\* C24: no step of a get_stats call changes the entries, the scores or the
\* expiry of any identifier's window.
C24_StatsReadOnly ==
  [][\A p \in Procs :
       ((rl[p].op = "get_stats" \/ rl'[p].op = "get_stats")
        /\ rl'[p] # rl[p])
       => UNCHANGED <<zset, expireAt>>]_vars

\* C24 witness: a get_stats has returned the count of a window that holds
\* entries, and the window is as the call found it
C24_Witness ==
  /\ last.op = "get_stats"
  /\ last.result.ok
  /\ last.result.stats.current_count >= 1
  /\ last.before # {}
  /\ zset[Key(last.identifier)] = last.before

\* C29 (as claimed): a count that is reported, by is_allowed and by
\* get_stats, includes no entry older than now - window: what get_stats
\* counts is at most the entries of the window at that moment, and what
\* is_allowed reports at most those of its window and its own.
C29_PurgeBeforeCount ==
  [][/\ \A p \in Procs :
          (rl[p].pc = "zcard" /\ rl'[p].pc = "zrange_oldest")
          => rl'[p].stats.current_count
               <= Cardinality(
                    {e \in zset[Key(rl[p].identifier)] :
                       e.score >= now - settings.rate_limit_window * SecTicks})
     /\ (last'.op = "is_allowed" /\ ~last'.res.error)
        => last'.res.current_count
             <= Cardinality(
                  {e \in last'.before :
                     e.score >= last'.current_time
                                  - last'.window * SecTicks})
                + (IF last'.res.allowed THEN 1 ELSE 0)]_vars

\* C25: a request whose path does not begin with /health starts an
\* is_allowed call under http:{client_ip} in the step it arrives, before any
\* call_next; the downstream handler is first entered for it in the step
\* that call returns an allowing decision for that identity; a denying
\* decision ends the request in the same step with status 429, the
\* decision's limit and remaining and retry_after = int(reset_time - now),
\* and a request answered 429 never had call_next called; no step of a
\* request under /health changes a limiter call or a stored window.
C25_AdmissionFacade ==
  [][\A p \in Procs :
       LET r      == http'[p]
           health == startswith(r.path, HealthPrefix)
           id     == <<"ip", r.client_ip>>
       IN  /\ r.served > http[p].served
              => IF health
                 THEN r.invoked = 1
                 ELSE \/ /\ rl'[p].op = "is_allowed"
                         /\ rl'[p].identifier = id
                         /\ r.invoked = 0
                      \/ /\ last'.op = "is_allowed"
                         /\ last'.identifier = id
                         /\ last'.res.error
           /\ (~health /\ r.pc = "call_next" /\ http[p].pc # "call_next")
              => /\ last'.op = "is_allowed"
                 /\ last'.identifier = id
                 /\ last'.res.allowed
                 /\ rl'[p].pc = "idle"
                 /\ r.invoked = 1
           /\ (http[p].pc = "is_allowed" /\ rl'[p] # rl[p]
               /\ rl'[p].pc = "idle" /\ ~last'.res.allowed)
              => /\ r.pc = "done"
                 /\ r.invoked = 0
                 /\ r.response =
                      [status_code  |-> 429,
                       retry_after  |-> int(last'.res.reset_time - now',
                                            SecTicks),
                       limit        |-> last'.res.limit,
                       remaining    |-> last'.res.remaining,
                       rate_headers |-> TRUE]
           /\ r.response.status_code = 429 => r.invoked = 0
           /\ (r # http[p] /\ health) => UNCHANGED <<rl, zset, expireAt>>]_vars

\* C25 witness: of two requests under the same identity, one was let through
\* to the handler and answered, the other was answered 429 without the
\* handler
C25_Witness ==
  \E p, q \in Procs :
     /\ http[p].response.status_code = 429
     /\ http[p].invoked = 0
     /\ http[q].response.status_code = 200
     /\ http[q].client_ip = http[p].client_ip
     /\ ~startswith(http[q].path, HealthPrefix)
     /\ http[q].rate_check.allowed /\ ~http[q].rate_check.error

\* C36: the script execution of a denied call leaves in the identifier's
\* set exactly the entries that were there and are not trimmed, adds none,
\* leaves the key's expiry as it was, and touches no other key.
C36_DenialConsumesNothing ==
  [][\A p \in Procs :
       (rl[p].pc = "evalsha" /\ rl'[p].pc = "idle"
        /\ ~last'.res.error /\ ~last'.res.allowed)
       => LET k == Key(rl[p].identifier)
              w == rl[p].window * SecTicks
          IN  /\ zset'[k] = {e \in zset[k] :
                               e.score > rl[p].current_time - w}
              /\ expireAt'[k] = expireAt[k]
              /\ \A o \in Keys \ {k} :
                    zset'[o] = zset[o] /\ expireAt'[o] = expireAt[o]]_vars

\* C36 witness: a call has just been denied on a window that holds an entry
\* and has an expiry, and the window is as the call found it
C36_Witness ==
  /\ Decided
  /\ ~last.res.allowed
  /\ last.before # {}
  /\ zset[Key(last.identifier)] = last.before
  /\ expireAt[Key(last.identifier)] > now

\* C37 (as claimed): after a denial with reset_time R, a call for the same
\* identifier with the same limit and window, made at any time from R on
\* with no allowed call in between, is allowed.
C37_ResetTimeActionable ==
  (Decided /\ ~last.res.allowed) =>
     LET k == Key(last.identifier)
     IN  \A t \in Time :
            (t >= now /\ t >= last.res.reset_time)
            => lua_script(IF Expired(k, t) THEN {} ELSE zset[k],
                          last.window, last.limit, t,
                          settings.rate_limit_burst, 1).reply[1] = 1

\* C39 (as claimed): burst_limit bounds the calls admitted at one instant:
\* where the window holds an entry recorded at this instant and has room
\* under the limit, a call with burst_limit = limit is allowed and the same
\* call with burst_limit = 1 is denied.
C39_BurstProtection ==
  \A k \in Keys :
     LET limit == settings.rate_limit_requests
         window == settings.rate_limit_window
     IN  ((\E e \in zset[k] : e.score = now) /\ ZCARD(zset[k]) < limit)
         => /\ lua_script(zset[k], window, limit, now, limit, 1).reply[1] = 1
            /\ lua_script(zset[k], window, limit, now, 1, 1).reply[1] = 0

\* C40 (as claimed): for no request is call_next called more than once,
\* whether the handler returns or raises.
C40_HandlerAtMostOnce ==
  \A p \in Procs : http[p].invoked <= 1

\* C33 (as claimed): once the ping of initialize has failed and its close()
\* is awaited, the call eventually returns to its caller, the lock released.
C33_InitFailureTerminates ==
  \A p \in Procs :
     (rl[p].pc = "close_lock" /\ rl[p].cont = "raise")
     ~> (rl[p].pc = "idle" /\ lock # p)

\* C38: with calls of initialize and get_redis only, a pool and a client
\* are created only in a step that finds neither, once there they are never
\* replaced or dropped, and every get_redis that returns hands its caller
\* that client.
C38_SingleClient ==
  [][/\ pool # None => pool' = pool
     /\ redis # None => redis' = redis
     /\ \A p \in Procs :
          /\ (rl[p].pc # "init_ping" /\ rl'[p].pc = "init_ping")
             => pool = None /\ redis = None
          /\ (rl'[p] # rl[p] /\ rl'[p].pc \in {"script_load", "evalsha"})
             => redis' = "client" /\ pool' = "pool"]_vars

\* C38 witness: one coroutine has been handed the client while the
\* initialize of the other, which created it, still awaits its ping
C38_Witness ==
  \E p, q \in Procs :
     /\ rl[p].pc = "init_ping" /\ lock = p
     /\ rl[q].pc \in {"script_load", "evalsha"}
     /\ redis = "client"

\* C34 (as claimed): the step in which a session's endpoint ends removes no
\* registry entry that holds another session's handle, and the step that
\* ends a broadcast removes only entries that hold a handle the broadcast
\* was sending to.
C34_RemovesOwnEntry ==
  [][\A c \in dict_keys(active_connections) :
       LET h == GetItem(active_connections, c)
           kept == /\ c \in dict_keys(active_connections')
                   /\ GetItem(active_connections', c) = h
       IN  /\ \A p \in Sessions \ {h} :
                (sess[p].pc # "closed" /\ sess'[p].pc = "closed") => kept
           /\ (done'.sender # 0 /\ h \notin done'.targets) => kept]_vars

\* C35 (as claimed): a session in its receive loop whose id has been removed
\* from the registry takes no step that adds an entry to the window of
\* ws_message:{id} or that delivers a broadcast of its to another session.
C35_EvictedSilent ==
  [][\A p \in Sessions :
       (/\ sess[p].pc \in InLoop
        /\ sess[p].client_id \notin dict_keys(active_connections)
        /\ sess'[p] # sess[p])
       => /\ zset'[Key(<<"ws_message", sess[p].client_id>>)]
               \subseteq zset[Key(<<"ws_message", sess[p].client_id>>)]
          /\ ~(/\ wire'.frame.kind = "broadcast"
               /\ wire'.path = "outbound"
               /\ wire'.frame.from = sess[p].client_id)]_vars

\* C31 (as claimed): while the send to one session never returns, every
\* session under another id that is handling an inbound unit, one
\* broadcasting to the slow session included, can go on: its coroutine is
\* never suspended in a send to the slow session, so that fair scheduling
\* brings it back to its receive.
C31_IndependentProgress ==
  \A p \in Pair \ {Slow} :
     (sess[p].pc \in InLoop /\ sess[p].client_id # sess[Slow].client_id)
     => ~(sess[p].pc \in {"send_text", "send_error"}
          /\ sess[p].websocket = Slow)

\* C32 (as claimed): a session does not wait for an inbound unit for ever:
\* when none comes it is probed, and ends when the probe is not answered.
C32_LivenessProbing ==
  \A p \in Pair : (sess[p].pc = "receive") ~> (sess[p].pc # "receive")

====
